---- MODULE Spec2Model ----
(***************************************************************************)
(* CEGIS circuit rectifier: truth tables, circuits, the Kahn dependency    *)
(* ordering, concrete simulation, the encoder and the CEGIS loop.          *)
(*                                                                         *)
(* A cube is a sequence of the characters "0", "1", "-"; a truth table is  *)
(* [num_inputs, onset_cubes]; a gate is [name, inputs, truth_table]; a     *)
(* circuit is [primary_inputs, primary_outputs, gates].                    *)
(***************************************************************************)
EXTENDS Integers, Sequences, FiniteSets, TLC

VARIABLES
    \* ---- Circuit.topological_sort, one call ----
    circ,            \* the circuit being sorted (self)
    in_degree,       \* gate name -> number of unresolved gate inputs
    ready,           \* FIFO list of ready gate names
    sorted_gates,    \* gates emitted so far
    tpc,             \* "idle" | "loop" | "returned" | "raised"
    remaining,       \* gate names reported by the cycle error
    \* ---- one rectification request: encoder.encode then cegis.run ----
    impl_circuit,
    spec_circuit,
    gates_to_fix,
    max_iterations,
    encoding,        \* the dict returned by encode
    pc,              \* "encode" | "synth" | "verify" | "learn" | "done" | "idle"
    iteration,       \* loop variable of run
    synth,           \* assertions held by the SYNTH solver
    test_vectors,    \* counterexamples appended so far
    candidate,       \* parameter values read from synth.model()
    checks,          \* number of solver check() calls issued
    result,          \* what encode raised or run returned
    \* ---- one gate function: encoded, tabulated and evaluated ----
    table,           \* the gate's truth table
    in_bits,         \* concrete values of the gate's inputs
    fixed_func,      \* term returned by encode_fixed_gate
    param_func,      \* term returned by encode_parameterized_gate
    tt_string,       \* TruthTable.to_binary_string()
    eval_out,        \* TruthTable.evaluate(inputs)
    fn_done,         \* which of the four calls have returned
    \* ---- one call of evaluate_circuit ----
    sim_inputs,      \* input_values
    sim_values,      \* values
    sim_i,           \* position of the for loop in the sorted gate list
    sim_pc           \* "idle" | "start" | "loop" | "returned" | "raised"

topo_vars == <<circ, in_degree, ready, sorted_gates, tpc, remaining>>
run_vars == <<impl_circuit, spec_circuit, gates_to_fix, max_iterations, encoding,
              pc, iteration, synth, test_vectors, candidate, checks, result>>
fn_vars == <<table, in_bits, fixed_func, param_func, tt_string, eval_out, fn_done>>
sim_vars == <<sim_inputs, sim_values, sim_i, sim_pc>>
vars == <<topo_vars, run_vars, fn_vars, sim_vars>>

\* ------------------------------------------------------------------ bounds
MaxIter == 5          \* largest iteration cap tried
MaxFanIn == 2         \* largest gate fan-in in the dependency-order circuits

\* ------------------------------------------------------------ small helpers
Range(s) == {s[i] : i \in 1..Len(s)}

RECURSIVE Pow2(_)
Pow2(n) == IF n = 0 THEN 1 ELSE 2 * Pow2(n - 1)

SeqsUpTo(S, n) == UNION {[1..k -> S] : k \in 0..n}

\* ------------------------------------------------------------ data model
TruthTable(n, cubes) == [num_inputs |-> n, onset_cubes |-> cubes]
Gate(name, inputs, tt) == [name |-> name, inputs |-> inputs, truth_table |-> tt]
Circuit(pis, pos, gates) ==
    [primary_inputs |-> pis, primary_outputs |-> pos, gates |-> gates]

num_inputs(gate) == Len(gate.inputs)

GateNames(c) == {c.gates[i].name : i \in 1..Len(c.gates)}

\* Circuit.get_gate: the first gate with that output name, or None
NoGate == [name |-> "None", inputs |-> <<>>, truth_table |-> TruthTable(0, <<>>)]
HasGate(c, net_name) == \E i \in 1..Len(c.gates) : c.gates[i].name = net_name
get_gate(c, net_name) ==
    IF HasGate(c, net_name)
    THEN LET i == CHOOSE i \in 1..Len(c.gates) :
                     /\ c.gates[i].name = net_name
                     /\ \A j \in 1..(i - 1) : c.gates[j].name # net_name
         IN c.gates[i]
    ELSE NoGate

\* gate_dict = {g.name: g for g in self.gates}: the last gate with that name
gate_dict(c, name) ==
    LET i == CHOOSE i \in 1..Len(c.gates) :
                 /\ c.gates[i].name = name
                 /\ \A j \in (i + 1)..Len(c.gates) : c.gates[j].name # name
    IN c.gates[i]

\* --------------------------------------------- Circuit.topological_sort
\* The (gate, input) pairs of the double loop at lines 131-135, in loop
\* order, keeping those whose input is produced by a gate.
RECURSIVE GateEdges(_, _, _)
GateEdges(c, gi, ii) ==
    IF gi > Len(c.gates) THEN <<>>
    ELSE IF ii > Len(c.gates[gi].inputs) THEN GateEdges(c, gi + 1, 1)
    ELSE LET inp == c.gates[gi].inputs[ii]
             rest == GateEdges(c, gi, ii + 1)
         IN IF inp \in GateNames(c)
            THEN <<[gate |-> c.gates[gi].name, inp |-> inp]>> \o rest
            ELSE rest

RECURSIVE CountEdges(_, _)
CountEdges(edges, name) ==
    IF edges = <<>> THEN 0
    ELSE (IF Head(edges).gate = name THEN 1 ELSE 0) + CountEdges(Tail(edges), name)

RECURSIVE DependentsOf(_, _)
DependentsOf(edges, name) ==
    IF edges = <<>> THEN <<>>
    ELSE (IF Head(edges).inp = name THEN <<Head(edges).gate>> ELSE <<>>)
         \o DependentsOf(Tail(edges), name)

\* in_degree after the loop at lines 131-135
InitialInDegree(c) ==
    LET edges == GateEdges(c, 1, 1)
    IN [n \in GateNames(c) |-> CountEdges(edges, n)]

\* dependents after the loop at lines 131-135
dependents(c) ==
    LET edges == GateEdges(c, 1, 1)
    IN [n \in GateNames(c) |-> DependentsOf(edges, n)]

\* [g.name for g in self.gates if g.name in S], in declaration order
RECURSIVE NamesWhere(_, _, _)
NamesWhere(c, i, S) ==
    IF i > Len(c.gates) THEN <<>>
    ELSE (IF c.gates[i].name \in S THEN <<c.gates[i].name>> ELSE <<>>)
         \o NamesWhere(c, i + 1, S)

\* ready at line 138
InitialReady(c) ==
    LET deg == InitialInDegree(c)
    IN NamesWhere(c, 1, {n \in GateNames(c) : deg[n] = 0})

\* Relax with the readiness test made before the decrement
RECURSIVE RelaxTestFirst(_, _, _)
RelaxTestFirst(deps, deg, rdy) ==
    IF deps = <<>> THEN [in_degree |-> deg, ready |-> rdy]
    ELSE LET dep == Head(deps)
             deg2 == [deg EXCEPT ![dep] = @ - 1]
         IN RelaxTestFirst(Tail(deps), deg2,
                           IF deg[dep] = 0 THEN Append(rdy, dep) ELSE rdy)

\* the inner for loop, lines 144-147, over the dependents list deps
RECURSIVE Relax(_, _, _)
Relax(deps, deg, rdy) ==
    IF deps = <<>> THEN [in_degree |-> deg, ready |-> rdy]
    ELSE LET dep == Head(deps)
             deg2 == [deg EXCEPT ![dep] = @ - 1]
         IN Relax(Tail(deps), deg2,
                  IF deg2[dep] = 0 THEN Append(rdy, dep) ELSE rdy)

\* which ready entry ready.pop(0) removes
PopIndex(rdy) == 1

\* one pass of the while loop body, lines 142-147
KahnStep(c, k) ==
    LET i == PopIndex(k.ready)
        gate_name == k.ready[i]
        rest == [j \in 1..(Len(k.ready) - 1) |->
                    IF j < i THEN k.ready[j] ELSE k.ready[j + 1]]
        r == Relax(dependents(c)[gate_name], k.in_degree, rest)
    IN [in_degree |-> r.in_degree, ready |-> r.ready,
        sorted_gates |-> Append(k.sorted_gates, gate_dict(c, gate_name))]

RECURSIVE KahnLoop(_, _)
KahnLoop(c, k) == IF k.ready = <<>> THEN k ELSE KahnLoop(c, KahnStep(c, k))

\* remaining at line 152
Remaining(c, deg) ==
    NamesWhere(c, 1, {n \in GateNames(c) : deg[n] > 0})

\* the test at line 151
SortComplete(c, sorted) == Len(sorted) = Len(c.gates)

\* the whole call: [raised, sorted_gates, remaining]
topological_sort(c) ==
    LET k == KahnLoop(c, [in_degree |-> InitialInDegree(c),
                          ready |-> InitialReady(c),
                          sorted_gates |-> <<>>])
    IN IF ~SortComplete(c, k.sorted_gates)
       THEN [raised |-> TRUE, sorted_gates |-> <<>>,
             remaining |-> Remaining(c, k.in_degree)]
       ELSE [raised |-> FALSE, sorted_gates |-> k.sorted_gates, remaining |-> <<>>]

\* ------------------------------------------------ encoder.evaluate_gate
\* Scan of one cube against concrete inputs (lines 119-125): "match",
\* "nomatch", or "raise" when inputs[i] is read past the end of the list.
RECURSIVE CubeScan(_, _, _)
CubeScan(cube, inputs, i) ==
    IF i > Len(cube) THEN "match"
    ELSE IF cube[i] = "-" THEN CubeScan(cube, inputs, i + 1)
    ELSE IF i > Len(inputs) THEN "raise"
    ELSE IF cube[i] = "1" /\ ~inputs[i] THEN "nomatch"
    ELSE IF cube[i] = "0" /\ inputs[i] THEN "nomatch"
    ELSE CubeScan(cube, inputs, i + 1)

\* The loop over the onset cubes (lines 117-128): "true", "false" or "raise".
RECURSIVE GateOutcome(_, _, _)
GateOutcome(tt, inputs, k) ==
    IF k > Len(tt.onset_cubes) THEN "false"
    ELSE LET r == CubeScan(tt.onset_cubes[k], inputs, 1)
         IN IF r = "match" THEN "true"
            ELSE IF r = "raise" THEN "raise"
            ELSE GateOutcome(tt, inputs, k + 1)

\* the table read against the inputs in reverse order
evaluate_gate_reversed(tt, inputs) ==
    GateOutcome(tt, [j \in 1..Len(inputs) |-> inputs[Len(inputs) + 1 - j]], 1) = "true"

evaluate_gate(tt, inputs) == GateOutcome(tt, inputs, 1) = "true"
evaluate_gate_raises(tt, inputs) == GateOutcome(tt, inputs, 1) = "raise"

\* --------------------------------------------------- TruthTable methods
\* TruthTable.evaluate, lines 25-39: the scan of evaluate_gate, as a method
evaluate(tt, inputs) == GateOutcome(tt, inputs, 1) = "true"

\* (i >> j) & 1 == 1
Bit(i, j) == (i \div Pow2(j)) % 2 = 1

\* TruthTable.to_binary_string, lines 41-56: one character per table row,
\* row 0 = all inputs false
to_binary_string(tt) ==
    IF tt.num_inputs > 4 THEN <<"TOO_LARGE">>
    ELSE [k \in 1..Pow2(tt.num_inputs) |->
             LET inputs == [m \in 1..tt.num_inputs |->
                               Bit(k - 1, tt.num_inputs - m)]
             IN IF evaluate(tt, inputs) THEN "1" ELSE "0"]

\* dict assignment d[k] = v
Put(d, k, v) == [x \in (DOMAIN d) \cup {k} |-> IF x = k THEN v ELSE d[x]]

\* --------------------------------------------- encoder.evaluate_circuit
RECURSIVE SimulateGates(_, _, _)
SimulateGates(order, i, values) ==
    IF i > Len(order) THEN values
    ELSE LET gate == order[i]
             gate_inputs == [j \in 1..Len(gate.inputs) |-> values[gate.inputs[j]]]
             output == evaluate_gate(gate.truth_table, gate_inputs)
         IN SimulateGates(order, i + 1, Put(values, gate.name, output))

evaluate_circuit(circuit, input_values) ==
    SimulateGates(topological_sort(circuit).sorted_gates, 1, input_values)

\* ------------------------------------------------------- solver terms
\* The boolean terms the encoder builds, and their value under a valuation
\* (a function from variable names to BOOLEAN).
Bool(name) == [op |-> "var", name |-> name]
Const(b) == [op |-> "const", val |-> b]
Not(t) == [op |-> "not", arg |-> t]
And(ts) == [op |-> "and", args |-> ts]
Or(ts) == [op |-> "or", args |-> ts]
If(c, t, e) == [op |-> "ite", cond |-> c, then |-> t, else |-> e]
Eq(a, b) == [op |-> "eq", lhs |-> a, rhs |-> b]

RECURSIVE EvalTerm(_, _)
EvalTerm(t, v) ==
    CASE t.op = "var" -> v[t.name]
      [] t.op = "const" -> t.val
      [] t.op = "not" -> ~EvalTerm(t.arg, v)
      [] t.op = "and" -> \A i \in 1..Len(t.args) : EvalTerm(t.args[i], v)
      [] t.op = "or" -> \E i \in 1..Len(t.args) : EvalTerm(t.args[i], v)
      [] t.op = "ite" -> IF EvalTerm(t.cond, v) THEN EvalTerm(t.then, v)
                         ELSE EvalTerm(t.else, v)
      [] t.op = "eq" -> EvalTerm(t.lhs, v) = EvalTerm(t.rhs, v)

\* And(*xs) if len(xs) > 1 else xs[0]
AndOrSingle(xs) == IF Len(xs) > 1 THEN And(xs) ELSE xs[1]
OrOrSingle(xs) == IF Len(xs) > 1 THEN Or(xs) ELSE xs[1]

\* ------------------------------------------- encoder.encode_fixed_gate
\* the literals with the '0' positions left un-negated
RECURSIVE CubeLiteralsUnnegated(_, _, _)
CubeLiteralsUnnegated(cube, inputs, i) ==
    IF i > Len(cube) THEN <<>>
    ELSE (CASE cube[i] \in {"0", "1"} -> <<inputs[i]>>
            [] OTHER -> <<>>)
         \o CubeLiteralsUnnegated(cube, inputs, i + 1)

\* literals of one cube, lines 26-32
RECURSIVE CubeLiterals(_, _, _)
CubeLiterals(cube, inputs, i) ==
    IF i > Len(cube) THEN <<>>
    ELSE (CASE cube[i] = "1" -> <<inputs[i]>>
            [] cube[i] = "0" -> <<Not(inputs[i])>>
            [] OTHER -> <<>>)
         \o CubeLiterals(cube, inputs, i + 1)

\* product term of one cube, lines 34-38
CubeTerm(cube, inputs) ==
    LET literals == CubeLiterals(cube, inputs, 1)
    IN IF literals # <<>> THEN AndOrSingle(literals) ELSE Const(TRUE)

\* (cubes have length num_inputs = len(inputs): blif_parser lines 122, 177)
encode_fixed_gate(inputs, tt) ==
    IF tt.num_inputs = 0 THEN Const(Len(tt.onset_cubes) > 0)
    ELSE LET terms == [k \in 1..Len(tt.onset_cubes) |->
                          CubeTerm(tt.onset_cubes[k], inputs)]
         IN IF terms = <<>> THEN Const(FALSE) ELSE OrOrSingle(terms)

\* ----------------------------------- encoder.encode_parameterized_gate
\* the arity ceiling set one too high
ParameterizationRaisesAbove3(inputs) == Len(inputs) > 3

\* the final else branch, line 77
ParameterizationRaises(inputs) == Len(inputs) > 2

\* the 2-input table addressed with the second input most significant
encode_parameterized_gate_lsb_first(inputs, params) ==
    IF Len(inputs) = 2
    THEN If(inputs[1], If(inputs[2], params[4], params[2]),
                       If(inputs[2], params[3], params[1]))
    ELSE IF Len(inputs) = 1
    THEN If(inputs[1], params[2], params[1])
    ELSE params[1]

encode_parameterized_gate(inputs, params) ==
    IF Len(inputs) = 2
    THEN If(inputs[1], If(inputs[2], params[4], params[3]),
                       If(inputs[2], params[2], params[1]))
    ELSE IF Len(inputs) = 1
    THEN If(inputs[1], params[2], params[1])
    ELSE params[1]

\* -------------------------------- encoder.get_parameterized_constraint
\* the index formed with the first input least significant
RECURSIVE TableIndexLsbFirst(_, _)
TableIndexLsbFirst(input_values, i) ==
    IF i > Len(input_values) THEN 0
    ELSE (IF input_values[i] THEN Pow2(i - 1) ELSE 0)
         + TableIndexLsbFirst(input_values, i + 1)

\* index = sum(input[i] * 2^(n-1-i)), lines 174-178 (0-based)
RECURSIVE TableIndex(_, _)
TableIndex(input_values, i) ==
    IF i > Len(input_values) THEN 0
    ELSE (IF input_values[i] THEN Pow2(Len(input_values) - i) ELSE 0)
         + TableIndex(input_values, i + 1)

\* the literal with its polarity inverted
get_parameterized_constraint_negated(input_values, expected_output, params) ==
    LET index == TableIndex(input_values, 1)
    IN IF expected_output THEN Not(params[index + 1]) ELSE params[index + 1]

get_parameterized_constraint(input_values, expected_output, params) ==
    LET index == TableIndex(input_values, 1)
    IN IF expected_output THEN params[index + 1] ELSE Not(params[index + 1])

\* ------------------------------------------------------ encoder.encode
\* gate_params = [Bool(f"p_{gate.name}_{i}") for i in range(num_params)]
GateParams(gate) ==
    [i \in 1..Pow2(num_inputs(gate)) |->
        Bool("p_" \o gate.name \o "_" \o ToString(i - 1))]

NoError == "none"

\* The walk over the implementation gates, lines 240-263.  acc carries
\* impl_signals, params, param_info, constraints and the exception raised.
RECURSIVE EncodeImplGates(_, _, _, _)
EncodeImplGates(order, i, fix, acc) ==
    IF i > Len(order) \/ acc.raised # NoError THEN acc
    ELSE LET gate == order[i]
         IN IF \E j \in 1..Len(gate.inputs) : gate.inputs[j] \notin DOMAIN acc.signals
            THEN [acc EXCEPT !.raised = "KeyError"]
            ELSE LET gate_inputs == [j \in 1..Len(gate.inputs) |->
                                        acc.signals[gate.inputs[j]]]
                     out_var == Bool(gate.name)
                     gate_params == GateParams(gate)
                     fixed == gate.name \notin fix
                 IN IF ~fixed /\ ParameterizationRaises(gate_inputs)
                    THEN [acc EXCEPT !.raised = "ValueError"]
                    ELSE LET gate_func ==
                                 IF fixed
                                 THEN encode_fixed_gate(gate_inputs, gate.truth_table)
                                 ELSE encode_parameterized_gate(gate_inputs, gate_params)
                         IN EncodeImplGates(order, i + 1, fix,
                              [signals |-> Put(acc.signals, gate.name, out_var),
                               params |-> IF fixed THEN acc.params
                                          ELSE acc.params \o gate_params,
                               param_info |-> IF fixed THEN acc.param_info
                                   ELSE Append(acc.param_info,
                                               [gate_name |-> gate.name,
                                                gate_params |-> gate_params]),
                               constraints |-> Append(acc.constraints,
                                                      Eq(out_var, gate_func)),
                               raised |-> NoError])

\* The walk over the specification gates, lines 270-283.
RECURSIVE EncodeSpecGates(_, _, _)
EncodeSpecGates(order, i, acc) ==
    IF i > Len(order) \/ acc.raised # NoError THEN acc
    ELSE LET gate == order[i]
         IN IF \E j \in 1..Len(gate.inputs) : gate.inputs[j] \notin DOMAIN acc.signals
            THEN [acc EXCEPT !.raised = "KeyError"]
            ELSE LET gate_inputs == [j \in 1..Len(gate.inputs) |->
                                        acc.signals[gate.inputs[j]]]
                     out_var == Bool(gate.name \o "_spec")
                     gate_func == encode_fixed_gate(gate_inputs, gate.truth_table)
                 IN EncodeSpecGates(order, i + 1,
                      [signals |-> Put(acc.signals, gate.name, out_var),
                       constraints |-> Append(acc.constraints, Eq(out_var, gate_func)),
                       raised |-> NoError])

Raised(kind) ==
    [raised |-> kind, params |-> <<>>, inputs |-> <<>>, behavior |-> Const(TRUE),
     correctness |-> Const(TRUE), param_info |-> <<>>, input_names |-> <<>>,
     output_names |-> <<>>]

\* The dict encode returns, or the exception it raises (field raised).
encode(impl, spec, fix) ==
    IF Range(impl.primary_inputs) # Range(spec.primary_inputs) THEN Raised("ValueError")
    ELSE IF Range(impl.primary_outputs) # Range(spec.primary_outputs)
    THEN Raised("ValueError")
    ELSE
    LET pis == impl.primary_inputs
        signals == [pi \in Range(pis) |-> Bool(pi)]
        input_vars == [k \in 1..Len(pis) |-> Bool(pis[k])]
        impl_order == topological_sort(impl)
    IN IF impl_order.raised THEN Raised("ValueError")
       ELSE
       LET im == EncodeImplGates(impl_order.sorted_gates, 1, fix,
                    [signals |-> signals, params |-> <<>>, param_info |-> <<>>,
                     constraints |-> <<>>, raised |-> NoError])
           spec_order == topological_sort(spec)
       IN IF im.raised # NoError THEN Raised(im.raised)
          ELSE IF spec_order.raised THEN Raised("ValueError")
          ELSE
          LET sp == EncodeSpecGates(spec_order.sorted_gates, 1,
                       [signals |-> signals, constraints |-> im.constraints,
                        raised |-> NoError])
              pos == impl.primary_outputs
          IN IF sp.raised # NoError THEN Raised(sp.raised)
             ELSE IF \E k \in 1..Len(pos) :
                        pos[k] \notin (DOMAIN im.signals) \cap (DOMAIN sp.signals)
             THEN Raised("KeyError")
             ELSE IF pos = <<>> \/ sp.constraints = <<>> THEN Raised("IndexError")
             ELSE
             LET correctness_terms ==
                     [k \in 1..Len(pos) |-> Eq(im.signals[pos[k]], sp.signals[pos[k]])]
             IN [raised |-> NoError,
                 params |-> im.params,
                 inputs |-> input_vars,
                 behavior |-> AndOrSingle(sp.constraints),
                 correctness |-> AndOrSingle(correctness_terms),
                 param_info |-> im.param_info,
                 input_names |-> impl.primary_inputs,
                 output_names |-> impl.primary_outputs]

\* ------------------------------------------------------- solver queries
RECURSIVE VarsOf(_)
VarsOf(t) ==
    CASE t.op = "var" -> {t.name}
      [] t.op = "const" -> {}
      [] t.op = "not" -> VarsOf(t.arg)
      [] t.op \in {"and", "or"} -> UNION {VarsOf(t.args[i]) : i \in 1..Len(t.args)}
      [] t.op = "ite" -> VarsOf(t.cond) \cup VarsOf(t.then) \cup VarsOf(t.else)
      [] t.op = "eq" -> VarsOf(t.lhs) \cup VarsOf(t.rhs)

ParamNames(enc) == {enc.params[i].name : i \in 1..Len(enc.params)}

\* synth.check() / synth.model(): the parameter valuations that satisfy every
\* assertion held by SYNTH, read with model completion (lines 55, 60, 65).
SynthModels(enc, assertions) ==
    {c \in [ParamNames(enc) -> BOOLEAN] :
        \A k \in 1..Len(assertions) : EvalTerm(assertions[k], c)}

\* the goal asserted without its negation
VerifierGoalUnnegated(enc) == enc.correctness

\* the third assertion of the verifier, line 66
VerifierGoal(enc) == Not(enc.correctness)

\* verifier.check() / verifier.model(): the valuations of all variables that
\* satisfy behavior, the pinned parameters and the goal (lines 63-68).
VerifierModels(enc, cand) ==
    LET goal == VerifierGoal(enc)
        all == VarsOf(enc.behavior) \cup VarsOf(goal) \cup ParamNames(enc)
                 \cup {enc.inputs[i].name : i \in 1..Len(enc.inputs)}
        free == all \ ParamNames(enc)
    IN {v \in {[x \in all |-> IF x \in ParamNames(enc) THEN cand[x] ELSE w[x]] :
                   w \in [free -> BOOLEAN]} :
           EvalTerm(enc.behavior, v) /\ EvalTerm(goal, v)}

\* input_values of lines 78-80, read off a verifier model
InputValues(enc, v) ==
    [name \in Range(enc.input_names) |->
        LET k == CHOOSE k \in 1..Len(enc.input_names) : enc.input_names[k] = name
        IN v[enc.inputs[k].name]]

\* The loop over param_info, lines 99-118: the constraints, or the exception.
RECURSIVE LearnConstraints(_, _, _, _, _)
LearnConstraints(info, i, impl, spec, impl_values) ==
    IF i > Len(info) THEN [raised |-> NoError, constraints |-> <<>>]
    ELSE LET gate == get_gate(impl, info[i].gate_name)
             gate_input_values == [j \in 1..Len(gate.inputs) |->
                                      impl_values[gate.inputs[j]]]
         IN IF ~HasGate(spec, info[i].gate_name)
            THEN [raised |-> "AttributeError", constraints |-> <<>>]
            ELSE LET spec_gate == get_gate(spec, info[i].gate_name)
                 IN IF evaluate_gate_raises(spec_gate.truth_table, gate_input_values)
                    THEN [raised |-> "IndexError", constraints |-> <<>>]
                    ELSE LET expected_output ==
                                 evaluate_gate(spec_gate.truth_table, gate_input_values)
                             constraint == get_parameterized_constraint(
                                 gate_input_values, expected_output, info[i].gate_params)
                             rest == LearnConstraints(info, i + 1, impl, spec, impl_values)
                         IN [raised |-> rest.raised,
                             constraints |-> <<constraint>> \o rest.constraints]

\* Lines 92-120: what is added to SYNTH for one counterexample, or the
\* exception raised on the way.
Learned(enc, impl, spec, input_values) ==
    LET impl_values == evaluate_circuit(impl, input_values)
        r == LearnConstraints(enc.param_info, 1, impl, spec, impl_values)
    IN IF r.raised # NoError THEN [raised |-> r.raised, assertion |-> Const(TRUE)]
       ELSE IF r.constraints = <<>> THEN [raised |-> "IndexError", assertion |-> Const(TRUE)]
       ELSE [raised |-> NoError, assertion |-> AndOrSingle(r.constraints)]

\* ----------------------------------------------------- circuits tried
AND2 == TruthTable(2, << <<"1", "1">> >>)
OR2 == TruthTable(2, << <<"1", "-">>, <<"-", "1">> >>)
ANDN2 == TruthTable(2, << <<"1", "0">> >>)
NOR2 == TruthTable(2, << <<"0", "0">> >>)
BUF1 == TruthTable(1, << <<"1">> >>)
NOT1 == TruthTable(1, << <<"0">> >>)
CONST1 == TruthTable(0, << <<>> >>)
AND3 == TruthTable(3, << <<"1", "1", "1">> >>)

AB == <<"a", "b">>
OneGate(tt, ins) == Circuit(AB, <<"f">>, <<Gate("f", ins, tt)>>)
TwoGates(tg, tf) ==
    Circuit(AB, <<"f">>, <<Gate("g", AB, tg), Gate("f", <<"g", "b">>, tf)>>)

C_AND == OneGate(AND2, AB)
C_OR == OneGate(OR2, AB)
C_ANDN_BA == OneGate(ANDN2, <<"b", "a">>)
C_NOT_A == OneGate(NOT1, <<"a">>)
C_CONST == OneGate(CONST1, <<>>)
C_AND_OR == TwoGates(AND2, OR2)
\* f declared before the gate g it reads
C_F_FIRST == Circuit(AB, <<"f">>, <<Gate("f", <<"g", "b">>, AND2), Gate("g", <<"a">>, NOT1)>>)
C_NOT_NOT == Circuit(AB, <<"f">>, <<Gate("g", <<"a">>, NOT1), Gate("f", <<"g">>, NOT1)>>)
C_LOOP == Circuit(AB, <<"f">>, <<Gate("f", <<"f", "a">>, AND2)>>)
ABC == <<"a", "b", "c">>
C_AND3 == Circuit(ABC, <<"f">>, <<Gate("f", ABC, AND3)>>)
C_AND3_CHAIN ==
    Circuit(ABC, <<"f">>, <<Gate("g", AB, AND2), Gate("f", <<"g", "c">>, AND2)>>)

\* an implementation net that carries the name encode gives the
\* specification's output variable (f plus the suffix _spec)
C_SHADOW == Circuit(AB, <<"f">>, <<Gate("f_spec", <<"a">>, BUF1), Gate("f", AB, NOR2)>>)

ImplCircuits == {C_AND, C_NOT_A, C_CONST, C_F_FIRST, C_LOOP, C_AND3, C_SHADOW}
SpecCircuits == {C_AND, C_OR, C_ANDN_BA, C_AND_OR, C_NOT_NOT, C_AND3, C_AND3_CHAIN}

\* the iteration caps tried: none, one, and the largest
Caps == {0, 1, MaxIter}

EmptyCircuit == Circuit(<<>>, <<>>, <<>>)
NoEncoding == Raised("unset")
NoCandidate == <<>>
Pending == [pending |-> TRUE]

\* no gate function is being looked at
FnIdle ==
    /\ table = TruthTable(0, <<>>)
    /\ in_bits = <<>>
    /\ fixed_func = Const(FALSE)
    /\ param_func = Const(FALSE)
    /\ tt_string = <<>>
    /\ eval_out = FALSE
    /\ fn_done = {}

\* no call of evaluate_circuit is under way
SimIdle ==
    /\ sim_inputs = <<>>
    /\ sim_values = <<>>
    /\ sim_i = 0
    /\ sim_pc = "idle"

\* ----------------------------------------------------------- the request
TopoIdle ==
    /\ circ = EmptyCircuit
    /\ in_degree = <<>>
    /\ ready = <<>>
    /\ sorted_gates = <<>>
    /\ tpc = "idle"
    /\ remaining = <<>>

Init ==
    /\ TopoIdle
    /\ FnIdle
    /\ SimIdle
    /\ impl_circuit \in ImplCircuits
    /\ spec_circuit \in SpecCircuits
    \* main.py lines 85-91 reject a fix-set naming no implementation gate
    /\ gates_to_fix \in SUBSET GateNames(impl_circuit)
    /\ max_iterations \in Caps
    /\ encoding = NoEncoding
    /\ pc = "encode"
    /\ iteration = 0
    /\ synth = <<>>
    /\ test_vectors = <<>>
    /\ candidate = NoCandidate
    /\ checks = 0
    /\ result = Pending

\* encoder.encode, then the entry of cegis.run (lines 37-48)
Encode ==
    /\ pc = "encode"
    /\ LET e == encode(impl_circuit, spec_circuit, gates_to_fix)
       IN IF e.raised # NoError
          THEN /\ result' = [exception |-> e.raised]
               /\ pc' = "done"
               /\ UNCHANGED <<encoding, iteration>>
          ELSE /\ encoding' = e
               /\ pc' = "synth"
               /\ iteration' = 1
               /\ UNCHANGED result
    /\ UNCHANGED <<impl_circuit, spec_circuit, gates_to_fix, max_iterations, synth,
                   test_vectors, candidate, checks, topo_vars, fn_vars, sim_vars>>

\* what run returns when the for loop ends, line 122
BudgetResult ==
    [success |-> FALSE, iterations |-> max_iterations,
     reason |-> "Maximum iterations reached"]

\* the for loop is exhausted, line 122
BudgetExhausted ==
    /\ pc = "synth"
    /\ iteration > max_iterations
    /\ result' = BudgetResult
    /\ pc' = "done"
    /\ UNCHANGED <<impl_circuit, spec_circuit, gates_to_fix, max_iterations, encoding,
                   iteration, synth, test_vectors, candidate, checks, topo_vars, fn_vars, sim_vars>>

\* SYNTHESIS, lines 54-60
SynthCheck ==
    /\ pc = "synth"
    /\ iteration <= max_iterations
    /\ checks' = checks + 1
    /\ LET models == SynthModels(encoding, synth)
       IN IF models = {}
          THEN /\ result' = [success |-> FALSE, iterations |-> iteration,
                             reason |-> "No valid parameters exist for the given gates"]
               /\ pc' = "done"
               /\ UNCHANGED candidate
          ELSE /\ \E c \in models : candidate' = c
               /\ pc' = "verify"
               /\ UNCHANGED result
    /\ UNCHANGED <<impl_circuit, spec_circuit, gates_to_fix, max_iterations, encoding,
                   iteration, synth, test_vectors, topo_vars, fn_vars, sim_vars>>

\* what run returns at lines 71-72
SuccessResult ==
    [success |-> TRUE, model |-> candidate, iterations |-> iteration,
     test_vectors |-> test_vectors]

\* VERIFICATION and counterexample extraction, lines 62-82
Verify ==
    /\ pc = "verify"
    /\ checks' = checks + 1
    /\ LET models == VerifierModels(encoding, candidate)
       IN IF models = {}
          THEN /\ result' = SuccessResult
               /\ pc' = "done"
               /\ UNCHANGED test_vectors
          ELSE /\ \E v \in models :
                     test_vectors' = Append(test_vectors, InputValues(encoding, v))
               /\ pc' = "learn"
               /\ UNCHANGED result
    /\ UNCHANGED <<impl_circuit, spec_circuit, gates_to_fix, max_iterations, encoding,
                   iteration, synth, candidate, topo_vars, fn_vars, sim_vars>>

\* the learning step with SYNTH rebuilt from the newest constraint alone
LearnReplacing ==
    /\ pc = "learn"
    /\ LET r == Learned(encoding, impl_circuit, spec_circuit,
                        test_vectors[Len(test_vectors)])
       IN IF r.raised # NoError
          THEN /\ result' = [exception |-> r.raised]
               /\ pc' = "done"
               /\ UNCHANGED <<synth, iteration, candidate>>
          ELSE /\ synth' = <<r.assertion>>
               /\ iteration' = iteration + 1
               /\ candidate' = NoCandidate
               /\ pc' = "synth"
               /\ UNCHANGED result
    /\ UNCHANGED <<impl_circuit, spec_circuit, gates_to_fix, max_iterations, encoding,
                   test_vectors, checks, topo_vars, fn_vars, sim_vars>>

\* counterexample to parameter constraint, lines 91-120, and the loop step.
\* candidate is dead once the constraint is added (line 60 overwrites it
\* before any read), so it is cleared here.
Learn ==
    /\ pc = "learn"
    /\ LET r == Learned(encoding, impl_circuit, spec_circuit,
                        test_vectors[Len(test_vectors)])
       IN IF r.raised # NoError
          THEN /\ result' = [exception |-> r.raised]
               /\ pc' = "done"
               /\ UNCHANGED <<synth, iteration, candidate>>
          ELSE /\ synth' = Append(synth, r.assertion)
               /\ iteration' = iteration + 1
               /\ candidate' = NoCandidate
               /\ pc' = "synth"
               /\ UNCHANGED result
    /\ UNCHANGED <<impl_circuit, spec_circuit, gates_to_fix, max_iterations, encoding,
                   test_vectors, checks, topo_vars, fn_vars, sim_vars>>

Next == Encode \/ BudgetExhausted \/ SynthCheck \/ Verify \/ Learn

Spec == Init /\ [][Next]_vars

\* ------------------------------------- one call of topological_sort
RunIdle ==
    /\ impl_circuit = EmptyCircuit
    /\ spec_circuit = EmptyCircuit
    /\ gates_to_fix = {}
    /\ max_iterations = 0
    /\ encoding = NoEncoding
    /\ pc = "idle"
    /\ iteration = 0
    /\ synth = <<>>
    /\ test_vectors = <<>>
    /\ candidate = NoCandidate
    /\ checks = 0
    /\ result = Pending

\* Circuits of three uniquely named gates in declaration order g1, g2, g3,
\* each reading the primary input a and then up to MaxFanIn gate outputs
\* (its own included, repetitions included).
TopoNames == <<"g1", "g2", "g3">>
TopoCircuits ==
    {Circuit(<<"a">>, <<"g3">>,
             [i \in 1..Len(TopoNames) |->
                 Gate(TopoNames[i], <<"a">> \o ins[i],
                      TruthTable(Len(ins[i]) + 1, <<>>))]) :
        ins \in [1..Len(TopoNames) -> SeqsUpTo(Range(TopoNames), MaxFanIn)]}

InitTopo ==
    /\ RunIdle
    /\ FnIdle
    /\ SimIdle
    /\ circ \in TopoCircuits
    /\ in_degree = <<>>
    /\ ready = <<>>
    /\ sorted_gates = <<>>
    /\ tpc = "start"
    /\ remaining = <<>>

\* lines 127-139
TopoStart ==
    /\ tpc = "start"
    /\ in_degree' = InitialInDegree(circ)
    /\ ready' = InitialReady(circ)
    /\ sorted_gates' = <<>>
    /\ tpc' = "loop"
    /\ UNCHANGED <<circ, remaining, run_vars, fn_vars, sim_vars>>

\* one pass of the while loop, lines 141-147
TopoPop ==
    /\ tpc = "loop"
    /\ ready # <<>>
    /\ LET k == KahnStep(circ, [in_degree |-> in_degree, ready |-> ready,
                                sorted_gates |-> sorted_gates])
       IN /\ in_degree' = k.in_degree
          /\ ready' = k.ready
          /\ sorted_gates' = k.sorted_gates
    /\ UNCHANGED <<circ, tpc, remaining, run_vars, fn_vars, sim_vars>>

\* lines 151-155
TopoFinish ==
    /\ tpc = "loop"
    /\ ready = <<>>
    /\ IF ~SortComplete(circ, sorted_gates)
       THEN /\ remaining' = Remaining(circ, in_degree)
            /\ tpc' = "raised"
       ELSE /\ tpc' = "returned"
            /\ UNCHANGED remaining
    /\ UNCHANGED <<circ, in_degree, ready, sorted_gates, run_vars, fn_vars, sim_vars>>

NextTopo == TopoStart \/ TopoPop \/ TopoFinish

SpecTopo == InitTopo /\ [][NextTopo]_vars

\* ------------------------------------- one gate function, four views
MaxCubes == 2         \* longest onset list tried

Arities == {0, 1, 2}
CubeChars == {"0", "1", "-"}

\* every truth table the parser can build for these arities: cubes of length
\* num_inputs over 0, 1, - (blif_parser lines 159-190)
Tables ==
    UNION {{TruthTable(n, cubes) : cubes \in SeqsUpTo([1..n -> CubeChars], MaxCubes)} :
              n \in Arities}

\* the gate under test: f, reading the first num_inputs of a, b
TestGate(tt) == Gate("f", SubSeq(AB, 1, tt.num_inputs), tt)

\* gate_inputs = [impl_signals[inp] for inp in gate.inputs], encode line 243
GateInputs(gate) == [j \in 1..Len(gate.inputs) |-> Bool(gate.inputs[j])]

InitGate ==
    /\ TopoIdle
    /\ RunIdle
    /\ SimIdle
    /\ table \in Tables
    /\ in_bits \in [1..table.num_inputs -> BOOLEAN]
    /\ fixed_func = Const(FALSE)
    /\ param_func = Const(FALSE)
    /\ tt_string = <<>>
    /\ eval_out = FALSE
    /\ fn_done = {}

\* encode_fixed_gate(gate_inputs, gate.truth_table)
EncodeFixedGate ==
    /\ "fixed" \notin fn_done
    /\ fixed_func' = encode_fixed_gate(GateInputs(TestGate(table)), table)
    /\ fn_done' = fn_done \cup {"fixed"}
    /\ UNCHANGED <<table, in_bits, param_func, tt_string, eval_out,
                   topo_vars, run_vars, sim_vars>>

\* encode_parameterized_gate(gate_inputs, gate_params)
EncodeParameterizedGate ==
    /\ "param" \notin fn_done
    /\ param_func' = encode_parameterized_gate(GateInputs(TestGate(table)),
                                               GateParams(TestGate(table)))
    /\ fn_done' = fn_done \cup {"param"}
    /\ UNCHANGED <<table, in_bits, fixed_func, tt_string, eval_out,
                   topo_vars, run_vars, sim_vars>>

\* truth_table.to_binary_string()
ToBinaryString ==
    /\ "string" \notin fn_done
    /\ tt_string' = to_binary_string(table)
    /\ fn_done' = fn_done \cup {"string"}
    /\ UNCHANGED <<table, in_bits, fixed_func, param_func, eval_out,
                   topo_vars, run_vars, sim_vars>>

\* truth_table.evaluate(inputs)
EvaluateTable ==
    /\ "evaluate" \notin fn_done
    /\ eval_out' = evaluate(table, in_bits)
    /\ fn_done' = fn_done \cup {"evaluate"}
    /\ UNCHANGED <<table, in_bits, fixed_func, param_func, tt_string,
                   topo_vars, run_vars, sim_vars>>

NextGate == EncodeFixedGate \/ EncodeParameterizedGate \/ ToBinaryString \/ EvaluateTable

SpecGate == InitGate /\ [][NextGate]_vars

\* ------------------------------------- one call of evaluate_circuit
\* Two-gate netlists over the primary inputs a, b as the parser hands them
\* over: the first gate drives g1 or (again) the primary input a, the second
\* drives f or (again) g1, and each reads two nets among a, b, g1, f, so a
\* gate may be declared before the gate it reads, lie on a cycle, or read a
\* net nothing drives.
SimNets == {"a", "b", "g1", "f"}
SimCircuits ==
    {Circuit(AB, <<n2>>, <<Gate(n1, i1, t1), Gate(n2, i2, t2)>>) :
        n1 \in {"g1", "a"}, n2 \in {"f", "g1"},
        i1 \in [1..2 -> SimNets], i2 \in [1..2 -> SimNets],
        t1 \in {AND2, ANDN2}, t2 \in {OR2, ANDN2}}

InitSim ==
    /\ RunIdle
    /\ FnIdle
    /\ circ \in SimCircuits
    /\ in_degree = <<>>
    /\ ready = <<>>
    /\ sorted_gates = <<>>
    /\ tpc = "idle"
    /\ remaining = <<>>
    /\ sim_inputs \in [Range(circ.primary_inputs) -> BOOLEAN]
    /\ sim_values = <<>>
    /\ sim_i = 0
    /\ sim_pc = "start"

\* values = dict(input_values) and the call circuit.topological_sort(),
\* lines 142 and 144
SimStart ==
    /\ sim_pc = "start"
    /\ sim_values' = sim_inputs
    /\ LET order == topological_sort(circ)
       IN IF order.raised
          THEN /\ sim_pc' = "ValueError"
               /\ UNCHANGED <<sorted_gates, sim_i>>
          ELSE /\ sorted_gates' = order.sorted_gates
               /\ sim_i' = 1
               /\ sim_pc' = "loop"
    /\ UNCHANGED <<circ, in_degree, ready, tpc, remaining, sim_inputs, run_vars, fn_vars>>

\* one pass of the for loop, lines 144-147
SimGate ==
    /\ sim_pc = "loop"
    /\ sim_i <= Len(sorted_gates)
    /\ LET gate == sorted_gates[sim_i]
       IN IF \E j \in 1..Len(gate.inputs) : gate.inputs[j] \notin DOMAIN sim_values
          THEN /\ sim_pc' = "KeyError"
               /\ UNCHANGED <<sim_values, sim_i>>
          ELSE LET gate_inputs == [j \in 1..Len(gate.inputs) |->
                                      sim_values[gate.inputs[j]]]
                   output == evaluate_gate(gate.truth_table, gate_inputs)
               IN /\ sim_values' = Put(sim_values, gate.name, output)
                  /\ sim_i' = sim_i + 1
                  /\ UNCHANGED sim_pc
    /\ UNCHANGED <<topo_vars, sim_inputs, run_vars, fn_vars>>

\* return values, line 149
SimReturn ==
    /\ sim_pc = "loop"
    /\ sim_i > Len(sorted_gates)
    /\ sim_pc' = "returned"
    /\ UNCHANGED <<topo_vars, sim_inputs, sim_values, sim_i, run_vars, fn_vars>>

NextSim == SimStart \/ SimGate \/ SimReturn

SpecSim == InitSim /\ [][NextSim]_vars

\* ======================================================================
\* Properties
\* ======================================================================

\* the gates whose output net x reads directly
DependsOn(c, x) == Range(get_gate(c, x).inputs) \cap GateNames(c)

RECURSIVE DepClosure(_, _, _)
DepClosure(c, S, n) ==
    IF n = 0 THEN S
    ELSE DepClosure(c, S \cup UNION {DependsOn(c, y) : y \in S}, n - 1)

\* the gates x depends on through one or more wires
TransDeps(c, x) == DepClosure(c, DependsOn(c, x), Len(c.gates))

OnCycle(c, x) == x \in TransDeps(c, x)
HasCycle(c) == \E x \in GateNames(c) : OnCycle(c, x)

\* the gates on a cycle and the gates depending on them
Stuck(c) ==
    {x \in GateNames(c) : OnCycle(c, x) \/ \E h \in TransDeps(c, x) : OnCycle(c, h)}

SortedNames == [i \in 1..Len(sorted_gates) |-> sorted_gates[i].name]

\* C10: topological_sort returns every gate exactly once, each after every
\* gate producing one of its inputs, exactly when the graph is acyclic;
\* otherwise it raises the cycle error, whose gate list is exactly the set of
\* gates that never became ready: the gates on a cycle and their dependents.
C10_DependencyOrder ==
    /\ tpc = "returned" =>
          /\ ~HasCycle(circ)
          /\ Len(sorted_gates) = Len(circ.gates)
          /\ Range(SortedNames) = GateNames(circ)
          /\ \A i \in 1..Len(sorted_gates) :
                \A d \in DependsOn(circ, SortedNames[i]) :
                   \E j \in 1..(i - 1) : SortedNames[j] = d
          /\ \A i \in 1..Len(sorted_gates) :
                sorted_gates[i] = get_gate(circ, SortedNames[i])
    /\ tpc = "raised" =>
          /\ HasCycle(circ)
          /\ Range(remaining) = GateNames(circ) \ Range(SortedNames)
          /\ Range(remaining) = Stuck(circ)
          /\ Cardinality(Range(remaining)) = Len(remaining)
    /\ tpc \in {"returned", "raised"} =>
          LET r == topological_sort(circ)
          IN /\ r.raised = (tpc = "raised")
             /\ r.remaining = remaining
             /\ ~r.raised => r.sorted_gates = sorted_gates

\* a cycle error after one gate was emitted and two were left unresolved
C10_Witness ==
    /\ tpc = "raised"
    /\ Len(sorted_gates) = 1
    /\ Len(remaining) = 2

\* ---------------------------------------------- outcomes of cegis.run
Done == pc = "done"
IsException == Done /\ "exception" \in DOMAIN result
Returned == Done /\ "success" \in DOMAIN result
IsSuccess == Returned /\ result.success
IsFailed == Returned /\ ~result.success
IsInfeasible ==
    IsFailed /\ result.reason = "No valid parameters exist for the given gates"
IsBudget == IsFailed /\ result.reason = "Maximum iterations reached"
Encoded == encoding.raised = NoError

\* ------------------------------------- the repaired circuit, by definition
\* row index of a lookup table, first input most significant
RECURSIVE RowIndex(_)
RowIndex(vals) ==
    IF vals = <<>> THEN 0
    ELSE 2 * RowIndex(SubSeq(vals, 1, Len(vals) - 1))
         + (IF vals[Len(vals)] THEN 1 ELSE 0)

ParamName(gate_name, i) == "p_" \o gate_name \o "_" \o ToString(i)

\* The implementation with each gate of fix replaced by the lookup table M
\* assigns to its parameters, every other gate keeping its truth table.
RECURSIVE RepairedGates(_, _, _, _, _)
RepairedGates(order, i, fix, M, values) ==
    IF i > Len(order) THEN values
    ELSE LET gate == order[i]
             ins == [j \in 1..Len(gate.inputs) |-> values[gate.inputs[j]]]
             out == IF gate.name \in fix
                    THEN M[ParamName(gate.name, RowIndex(ins))]
                    ELSE evaluate_gate(gate.truth_table, ins)
         IN RepairedGates(order, i + 1, fix, M, Put(values, gate.name, out))

Repaired(impl, fix, M, input_values) ==
    RepairedGates(topological_sort(impl).sorted_gates, 1, fix, M, input_values)

Assignments(c) == [Range(c.primary_inputs) -> BOOLEAN]

\* impl repaired by M disagrees with spec on some primary output at x
Differs(impl, spec, fix, M, x) ==
    \E k \in 1..Len(impl.primary_outputs) :
        Repaired(impl, fix, M, x)[impl.primary_outputs[k]]
            # evaluate_circuit(spec, x)[impl.primary_outputs[k]]

\* M repairs impl: no primary-input assignment tells it from spec
Repairs(impl, spec, fix, M) ==
    \A x \in Assignments(impl) : ~Differs(impl, spec, fix, M, x)

FixParamNames(impl, fix) ==
    UNION {{ParamName(g, i) : i \in 0..(Pow2(num_inputs(get_gate(impl, g))) - 1)} :
              g \in fix \cap GateNames(impl)}

Repairable(impl, spec, fix) ==
    \E M \in [FixParamNames(impl, fix) -> BOOLEAN] : Repairs(impl, spec, fix, M)

\* C1: whenever run returns success with model M, the implementation with
\* the fix-set gates replaced by the lookup tables of M equals the
\* specification at every primary output for every primary-input assignment.
C1_SuccessIsSound ==
    IsSuccess => Repairs(impl_circuit, spec_circuit, gates_to_fix, result.model)

\* the iteration cap exceeds 2^(primary inputs) and 2^(parameters)
BigCap ==
    /\ max_iterations > Pow2(Len(impl_circuit.primary_inputs))
    /\ max_iterations > Pow2(Len(encoding.params))

\* C2: if some parameter assignment repairs the implementation and the cap
\* exceeds 2^(primary inputs) and 2^(parameters), run ends with SUCCESS and
\* never with a FAILED outcome.
C2_Completeness ==
    (Returned /\ Encoded /\ BigCap
       /\ Repairable(impl_circuit, spec_circuit, gates_to_fix)) => IsSuccess

\* C3: test_vectors never holds two equal primary-input assignments.
C3_NoRepeatedCounterexample ==
    \A i, j \in 1..Len(test_vectors) : i # j => test_vectors[i] # test_vectors[j]

\* C4: run does at most max_iterations iterations and ends with SUCCESS,
\* FAILED-infeasible or FAILED-budget-exhausted and in no other way;
\* budget-exhausted comes only after max_iterations counterexamples.
C4_StructuredOutcome ==
    /\ Encoded => Len(test_vectors) <= max_iterations
    /\ (Done /\ Encoded) => (IsSuccess \/ IsInfeasible \/ IsBudget)
    /\ IsBudget => Len(test_vectors) = max_iterations

Prefix(q, k) == SubSeq(q, 1, k)

\* C6: every constraint added to SYNTH is new: the set of parameter
\* assignments satisfying SYNTH strictly shrinks with every counterexample.
C6_ProgressPerCounterexample ==
    Encoded =>
        \A k \in 1..Len(synth) :
            SynthModels(encoding, Prefix(synth, k))
                # SynthModels(encoding, Prefix(synth, k - 1))

\* C7: the FAILED result returned when the iteration cap is reached carries
\* the iteration count and the counterexamples found so far.
C7_BudgetDiagnostics ==
    IsBudget =>
        /\ "iterations" \in DOMAIN result
        /\ result.iterations = max_iterations
        /\ "test_vectors" \in DOMAIN result
        /\ result.test_vectors = test_vectors

\* ------------------------------------------ the AND-to-OR repair request
\* impl f = AND(a,b), spec f = OR(a,b), fix-set {f}, and a cap that leaves
\* room for one iteration per table row and the closing one
AndToOr ==
    /\ impl_circuit = C_AND
    /\ spec_circuit = C_OR
    /\ gates_to_fix = {"f"}
    /\ Encoded
    /\ max_iterations > Len(encoding.params)

OrTable ==
    [n \in {ParamName("f", i) : i \in 0..3} |-> n # ParamName("f", 0)]

Vector(va, vb) == [n \in {"a", "b"} |-> IF n = "a" THEN va ELSE vb]

\* C8 as stated: the AND-to-OR request ends SUCCESS with the OR table after
\* at most 2 counterexamples, each of them (a=1,b=0) or (a=0,b=1).
C8_AndToOrWithinTwo ==
    AndToOr =>
        /\ Len(test_vectors) <= 2
        /\ \A i \in 1..Len(test_vectors) :
              test_vectors[i] \in {Vector(TRUE, FALSE), Vector(FALSE, TRUE)}
        /\ Done => (IsSuccess /\ result.model = OrTable)

\* C8 as amended: the AND-to-OR request ends SUCCESS with the OR table after
\* at most 4 counterexamples, which are pairwise distinct and may be any of
\* the four primary-input assignments.
C8_AndToOrWithinFour ==
    AndToOr =>
        /\ Len(test_vectors) <= 4
        /\ C3_NoRepeatedCounterexample
        /\ Done => /\ IsSuccess
                   /\ result.model = OrTable
                   /\ result.test_vectors = test_vectors
                   /\ result.iterations = Len(test_vectors) + 1

\* the request succeeded after all four assignments came up as counterexamples
C8_Witness ==
    /\ AndToOr
    /\ IsSuccess
    /\ Len(result.test_vectors) = 4
    /\ Vector(TRUE, TRUE) \in Range(result.test_vectors)

\* the fix-set names an implementation gate with three or more inputs
FixesWideGate ==
    \E g \in gates_to_fix :
        HasGate(impl_circuit, g) /\ num_inputs(get_gate(impl_circuit, g)) >= 3

\* C9: encode with a fix-set holding an implementation gate of 3 or more
\* inputs raises the configuration error and returns no Encoding, and no
\* SYNTH or VERIFY check is ever issued for the request.
C9_ArityCeiling ==
    FixesWideGate =>
        /\ checks = 0
        /\ encoding = NoEncoding
        /\ synth = <<>>
        /\ pc \in {"encode", "done"}
        /\ Done => result = [exception |-> "ValueError"]

\* the 3-input gate of two otherwise matching circuits was asked to be fixed
C9_Witness ==
    /\ FixesWideGate
    /\ impl_circuit = C_AND3
    /\ spec_circuit = C_AND3
    /\ Done
    /\ result = [exception |-> "ValueError"]

\* ------------------------------------------------ one gate, four views
\* the valuation giving the gate's input variables the values bits
InputValuation(gate, bits) ==
    [x \in Range(gate.inputs) |->
        bits[CHOOSE j \in 1..Len(gate.inputs) : gate.inputs[j] = x]]

AllBits(n) == [1..n -> BOOLEAN]

AllDontCare(cube) == \A i \in 1..Len(cube) : cube[i] = "-"

\* C11: for every truth table of arity 0, 1 or 2 and every assignment of its
\* inputs, the term built by encode_fixed_gate is true under the assignment
\* exactly when TruthTable.evaluate returns true; an empty onset encodes
\* constant false, an onset with an all-don't-care cube constant true; the
\* AND table holds exactly at a=b=true and the OR table whenever a or b.
C11_FixedGateAgrees ==
    ({"fixed", "evaluate"} \subseteq fn_done) =>
        LET gate == TestGate(table)
            value(bits) == EvalTerm(fixed_func, InputValuation(gate, bits))
        IN /\ value(in_bits) = eval_out
           /\ table.onset_cubes = <<>> =>
                 \A bits \in AllBits(table.num_inputs) : ~value(bits)
           /\ (\E k \in 1..Len(table.onset_cubes) : AllDontCare(table.onset_cubes[k])) =>
                 \A bits \in AllBits(table.num_inputs) : value(bits)
           /\ table = AND2 => (value(in_bits) <=> (in_bits[1] /\ in_bits[2]))
           /\ table = OR2 => (value(in_bits) <=> (in_bits[1] \/ in_bits[2]))

\* the OR gate was encoded and evaluated at a=0, b=1, where only its second
\* cube matches
C11_Witness ==
    /\ {"fixed", "evaluate"} \subseteq fn_done
    /\ table = OR2
    /\ in_bits = <<FALSE, TRUE>>
    /\ eval_out
    /\ EvalTerm(fixed_func, InputValuation(TestGate(table), in_bits))

\* the parameters of gate pinned to the rows of a table string
Pinned(gate, str) ==
    [x \in {ParamName(gate.name, i) : i \in 0..(Len(str) - 1)} |->
        str[(CHOOSE i \in 0..(Len(str) - 1) : ParamName(gate.name, i) = x) + 1] = "1"]

Merge(f, g) == [x \in (DOMAIN f) \cup (DOMAIN g) |-> IF x \in DOMAIN f THEN f[x] ELSE g[x]]

\* C12: for every truth table T of arity 0, 1 or 2 and every combination of
\* input values, encode_parameterized_gate with its 2^arity parameters pinned
\* to T's canonical table (row index with the first input most significant)
\* has the value of encode_fixed_gate of T; pinned to (0,0,0,1) a 2-input gate
\* is AND.
C12_ParameterizedIsLookupTable ==
    ({"fixed", "param", "string"} \subseteq fn_done) =>
        LET gate == TestGate(table)
            ins == InputValuation(gate, in_bits)
            lut == EvalTerm(param_func, Merge(ins, Pinned(gate, tt_string)))
        IN /\ Len(tt_string) = Pow2(table.num_inputs)
           /\ \A bits \in AllBits(table.num_inputs) :
                 (tt_string[RowIndex(bits) + 1] = "1") <=> evaluate(table, bits)
           /\ lut = EvalTerm(fixed_func, ins)
           /\ tt_string = <<"0", "0", "0", "1">> => (lut <=> (in_bits[1] /\ in_bits[2]))

\* the table of a AND NOT b, whose only true row is row 2, was pinned and
\* read at a=1, b=0
C12_Witness ==
    /\ {"fixed", "param", "string"} \subseteq fn_done
    /\ table = ANDN2
    /\ tt_string = <<"0", "0", "1", "0">>
    /\ in_bits = <<TRUE, FALSE>>
    /\ EvalTerm(param_func, Merge(InputValuation(TestGate(table), in_bits),
                                  Pinned(TestGate(table), tt_string)))

\* ------------------------------------------------- evaluate_circuit
\* every net has one driver: gate names are pairwise distinct and none is
\* the name of a primary input
SingleDriver(c) ==
    /\ \A i, j \in 1..Len(c.gates) : i # j => c.gates[i].name # c.gates[j].name
    /\ GateNames(c) \cap Range(c.primary_inputs) = {}

\* every gate input is a primary input or a gate output
NetsDefined(c) ==
    \A i \in 1..Len(c.gates) :
        Range(c.gates[i].inputs) \subseteq Range(c.primary_inputs) \cup GateNames(c)

\* the returned map: inputs kept, every gate at its table's value on the
\* mapped values of its inputs in declared order
SimulationHolds ==
    /\ \A x \in Range(circ.primary_inputs) : sim_values[x] = sim_inputs[x]
    /\ \A i \in 1..Len(circ.gates) :
          LET gate == circ.gates[i]
          IN sim_values[gate.name] =
                evaluate(gate.truth_table,
                         [j \in 1..Len(gate.inputs) |-> sim_values[gate.inputs[j]]])

\* the circuit g1 = AND(a,b), f = OR(g1,b)
C_EXAMPLE ==
    Circuit(AB, <<"f">>, <<Gate("g1", AB, AND2), Gate("f", <<"g1", "b">>, OR2)>>)

\* C13 as stated: for every acyclic circuit and every primary-input
\* assignment the map evaluate_circuit returns keeps every primary input at
\* its given value and has every gate at its truth table's value on the
\* mapped values of its inputs in declared order.
C13_SimulationSemantics ==
    (sim_pc = "returned" /\ ~HasCycle(circ)) => SimulationHolds

\* C13 as amended: for every circuit in which every net has one driver, a
\* returned map keeps every primary input at its given value and has every
\* gate at its truth table's value on the mapped values of its inputs in
\* declared order; the call returns when the circuit is acyclic and every
\* gate input is driven, and raises otherwise; g1 = AND(a,b), f = OR(g1,b)
\* gives g1 = f = false at a=1, b=0 and g1 = f = true at a=1, b=1.
C13_SimulationOfSingleDriverCircuits ==
    SingleDriver(circ) =>
        /\ sim_pc = "returned" =>
              /\ ~HasCycle(circ)
              /\ NetsDefined(circ)
              /\ DOMAIN sim_values = Range(circ.primary_inputs) \cup GateNames(circ)
              /\ SimulationHolds
              /\ sim_values = evaluate_circuit(circ, sim_inputs)
        /\ sim_pc = "ValueError" => HasCycle(circ)
        /\ sim_pc = "KeyError" => ~NetsDefined(circ)
        /\ (sim_pc = "returned" /\ circ = C_EXAMPLE /\ sim_inputs["a"]) =>
              /\ sim_values["g1"] = sim_inputs["b"]
              /\ sim_values["f"] = sim_inputs["b"]

\* the example circuit was simulated at a=1, b=0 and both gates came out false
C13_Witness ==
    /\ sim_pc = "returned"
    /\ circ = C_EXAMPLE
    /\ sim_inputs = [x \in {"a", "b"} |-> x = "a"]
    /\ ~sim_values["g1"]
    /\ ~sim_values["f"]

\* ------------------------------------------------ the CEGIS loop, again
\* the counterexample appended in the current iteration
LastVector == test_vectors[Len(test_vectors)]

\* C14: every primary-input assignment appended to test_vectors is one on
\* which the implementation, with the fix-set gates set to the parameter
\* values of the candidate of that iteration, differs from the specification
\* on at least one primary output.  (Every append leads to pc = "learn", where
\* candidate still holds the candidate that was verified.)
C14_CounterexamplesGenuine ==
    pc = "learn" =>
        Differs(impl_circuit, spec_circuit, gates_to_fix, candidate, LastVector)

\* AND-to-OR: the all-false candidate was refuted at a=0, b=1
C14_Witness ==
    /\ pc = "learn"
    /\ impl_circuit = C_AND
    /\ spec_circuit = C_OR
    /\ gates_to_fix = {"f"}
    /\ \A x \in DOMAIN candidate : ~candidate[x]
    /\ LastVector = Vector(FALSE, TRUE)

\* the conjuncts of an assertion held by SYNTH
Conjuncts(t) == IF t.op = "and" THEN t.args ELSE <<t>>

\* the values of gate g's inputs when impl is simulated, with its original
\* truth tables, on the counterexample x
FixGateInputs(impl, g, x) ==
    LET gate == get_gate(impl, g)
        vals == evaluate_circuit(impl, x)
    IN [j \in 1..Len(gate.inputs) |-> vals[gate.inputs[j]]]

\* the literal claimed for fix-set gate g and counterexample x
ClaimedLiteral(impl, spec, g, x) ==
    LET ins == FixGateInputs(impl, g, x)
        p == Bool(ParamName(g, RowIndex(ins)))
    IN IF evaluate(get_gate(spec, g).truth_table, ins) THEN p ELSE Not(p)

\* the parameter the lookup-table term of gate g reads at input values ins
SelectsParam(impl, g, ins, name) ==
    LET gate == get_gate(impl, g)
        term == encode_parameterized_gate([j \in 1..Len(ins) |-> Const(ins[j])],
                                          GateParams(gate))
    IN \A M \in [{ParamName(g, i) : i \in 0..(Pow2(Len(ins)) - 1)} -> BOOLEAN] :
          EvalTerm(term, M) = M[name]

OnePerCounterexample == Len(synth) = Len(test_vectors)

\* synth is left alone or gets one constraint appended
SynthAppended ==
    \/ synth' = synth
    \/ /\ Len(synth') = Len(synth) + 1
       /\ SubSeq(synth', 1, Len(synth)) = synth

\* C16: within one run SYNTH is never reset; what it holds at any iteration
\* contains, unchanged, what it held at every earlier one; and at every
\* synthesis or verification query and at every return it holds exactly one
\* added constraint per counterexample extracted (one fewer only between
\* the extraction of a counterexample and the end of its learning step).
C16_SynthAssertOnly ==
    /\ []((pc \in {"synth", "verify"} \/ Returned) => OnePerCounterexample)
    /\ [](Len(test_vectors) - 1 <= Len(synth) /\ Len(synth) <= Len(test_vectors))
    /\ [][SynthAppended]_vars

\* the fourth synthesis query finds three constraints for three counterexamples
C16_Witness ==
    /\ pc = "synth"
    /\ iteration = 4
    /\ Len(synth) = 3
    /\ Len(test_vectors) = 3

\* ------------------------------------------------ variables of an Encoding
\* behavior is the conjunction of one equation out_var == gate_func per
\* gate, the implementation's gates first (encode lines 263, 283, 295)
ImplEquations ==
    SubSeq(Conjuncts(encoding.behavior), 1, Len(impl_circuit.gates))
SpecEquations ==
    SubSeq(Conjuncts(encoding.behavior), Len(impl_circuit.gates) + 1,
           Len(Conjuncts(encoding.behavior)))

OutputVars(eqs) == {eqs[k].lhs.name : k \in 1..Len(eqs)}
AllVars(eqs) == UNION {VarsOf(eqs[k]) : k \in 1..Len(eqs)}
InputVars == {encoding.inputs[i].name : i \in 1..Len(encoding.inputs)}

\* C17: for every pair of circuits encode accepts, whatever their net names,
\* the variables of the specification's gate outputs differ from every
\* implementation gate-output variable and every parameter variable, gate
\* output and parameter variables differ from the primary-input variables,
\* and implementation and specification share only primary-input variables.
C17_DisjointNamespaces ==
    Encoded =>
        /\ OutputVars(SpecEquations)
              \cap (OutputVars(ImplEquations) \cup ParamNames(encoding)) = {}
        /\ (OutputVars(ImplEquations) \cup OutputVars(SpecEquations)
              \cup ParamNames(encoding)) \cap InputVars = {}
        /\ AllVars(ImplEquations) \cap AllVars(SpecEquations) \subseteq InputVars

\* ------------------------------------------------ order of removal
\* position of a gate in the circuit's declaration order
DeclIndex(c, name) == CHOOSE i \in 1..Len(c.gates) : c.gates[i].name = name

\* the gate the next pass of the while loop removes (KahnStep)
RemovedNext == ready[PopIndex(ready)]

\* C18: at every removal step of topological_sort the gate removed next is
\* the one declared earliest among all gates ready at that moment.
C18_EarliestDeclaredFirst ==
    (tpc = "loop" /\ ready # <<>>) =>
        \A j \in 1..Len(ready) :
            DeclIndex(circ, RemovedNext) <= DeclIndex(circ, ready[j])

\* ------------------------------------------------ SYNTH stays satisfiable
\* every fix-set gate has a same-named specification gate of no larger arity
SpecGatesFit ==
    \A g \in gates_to_fix :
        /\ HasGate(spec_circuit, g)
        /\ num_inputs(get_gate(spec_circuit, g)) <= num_inputs(get_gate(impl_circuit, g))

\* the input values of table row i of an n-input gate, first input most
\* significant
RowBits(i, n) == [m \in 1..n |-> Bit(i, n - m)]

\* each fix-set gate's parameters set to the specification gate's truth table
SpecTableAssignment ==
    [x \in ParamNames(encoding) |->
        LET g == CHOOSE g \in gates_to_fix :
                     \E i \in 0..(Pow2(num_inputs(get_gate(impl_circuit, g))) - 1) :
                         ParamName(g, i) = x
            n == num_inputs(get_gate(impl_circuit, g))
            i == CHOOSE i \in 0..(Pow2(n) - 1) : ParamName(g, i) = x
        IN evaluate(get_gate(spec_circuit, g).truth_table, RowBits(i, n))]

\* at every synthesis query the specification's tables satisfy SYNTH
SynthKeepsSpecTables ==
    (Encoded /\ SpecGatesFit /\ pc = "synth") =>
        SpecTableAssignment \in SynthModels(encoding, synth)

\* the FAILED-infeasible outcome is not reached
NeverInfeasible == (Encoded /\ SpecGatesFit) => ~IsInfeasible

\* a run on a fix-set that cannot be repaired ends budget-exhausted
UnrepairableEndsInBudget ==
    (Encoded /\ SpecGatesFit /\ Done
       /\ ~Repairable(impl_circuit, spec_circuit, gates_to_fix)) => IsBudget

\* C19: for every Encoding in which each fix-set gate has a same-named
\* specification gate of no larger arity, the accumulated constraints are
\* satisfied at every synthesis query by the assignment setting each fix-set
\* gate's parameters to the specification gate's truth table; the
\* FAILED-infeasible outcome is never reached; and a run on a fix-set that
\* cannot be repaired ends budget-exhausted.
C19_SynthNeverUnsat ==
    /\ SynthKeepsSpecTables
    /\ NeverInfeasible
    /\ UnrepairableEndsInBudget

====
